---- MODULE Spec2Model ----
(***************************************************************************)
(* State-machine model of src/components/Septagon3D.tsx: the Tray          *)
(* component (open/closed state, per-frame radial slide of its mesh), the  *)
(* SideBox placement and the ClockContent interval timer.                  *)
(*                                                                         *)
(* Numbers.  Lengths are integers in thousandths of a scene unit, so the   *)
(* source's 3, 1.2, 0.4, 0.1, 1.5 are 3000, 1200, 400, 100, 1500.  Elapsed *)
(* time and interpolation factors are exact fractions [n, d] (n/d, d > 0). *)
(* Angles are exact fractions of a full turn.  A mesh position is kept in  *)
(* polar form: the face angle and the signed coordinate along that ray, so *)
(* x = cos(angle) * dist and z = sin(angle) * dist.  The result of lerp is *)
(* rounded to the nearest thousandth.                                      *)
(***************************************************************************)
EXTENDS Integers, Sequences, FiniteSets

VARIABLES
    phase,      \* Tray: "new" (not yet mounted), "mounted", "unmounted"
    props,      \* the props Tray and SideBox were constructed with
    isOpen,     \* Tray: useState(false)
    meshRef,    \* Tray: meshRef.current is set
    position,   \* Tray mesh: [angle |-> face angle, dist |-> radial coordinate]
    sideBox,    \* SideBox mesh: [angle, dist]
    clockPhase, \* ClockContent: "new", "mounted", "unmounted"
    timers,     \* ClockContent: number of active interval timers
    time,       \* ClockContent: useState(new Date()), in seconds
    now,        \* wall clock, in seconds
    lastOp,     \* history: the operation that produced this state
    negative,   \* history: the latest frame update got a negative elapsed time
    openLog,    \* history: isOpen at mount and after every click
    run         \* history: the frame updates since the latest mount or click

vars == << phase, props, isOpen, meshRef, position, sideBox, clockPhase, timers,
           time, now, lastOp, negative, openLog, run >>

trayVars == << phase, props, isOpen, meshRef, position, sideBox, negative,
               openLog, run >>

clockVars == << clockPhase, timers, time, now >>

(* ---------------------------- bounds ----------------------------------- *)

MaxClicks == 3          \* clicks per behaviour
MaxTicks == 60          \* clock ticks per behaviour
MaxRun == 60            \* frame updates counted in one run
MaxDist == 4000         \* frame updates stop once the mesh is farther out

(* ---------------------------- arithmetic ------------------------------- *)

Abs(a) == IF a < 0 THEN -a ELSE a

\* a / b rounded to the nearest integer, b > 0
RoundDiv(a, b) == (2 * a + b) \div (2 * b)

Frac(n, d) == [n |-> n, d |-> d]

Zero == Frac(0, 1)

\* THREE.MathUtils.lerp(x, y, t) = (1 - t) * x + t * y, t not clamped
lerp(x, y, t) == RoundDiv((t.d - t.n) * x + t.n * y, t.d)

\* the factor without the rate
LerpFactorUnscaled(delta) == Frac(delta.n, delta.d)

\* delta * 8
LerpFactor(delta) == Frac(delta.n * 8, delta.d)

(* ---------------------------- geometry --------------------------------- *)

\* angleStep * (index + 0.5), angleStep = 2 pi / segments, as a fraction of a turn
faceAngle(index, segments) == Frac(2 * index + 1, 2 * segments)

length(p) == p.radius - p.innerRadius - 400

startRadius(p) == p.innerRadius + (length(p) \div 2) + 100

closedDist(p) == startRadius(p)

openDist(p) == closedDist(p) + 1500

\* SideBox: dist = radius + 0.2
SideBoxDist(p) == p.radius + 200

SideBoxPosition(p) ==
    [angle |-> faceAngle(p.boxIndex, p.segments), dist |-> SideBoxDist(p)]

\* Math.sqrt(x * x + z * z) of a position on the face ray
currentDist(pos) == Abs(pos.dist)

targetDist(open, p) == IF open THEN openDist(p) ELSE closedDist(p)

\* a mesh left at the origin of its face ray
PositionAtOrigin(p) == [angle |-> faceAngle(p.trayIndex, p.segments), dist |-> 0]

\* the position prop of the Tray mesh: the closed position on the face ray
PositionProp(p) ==
    [angle |-> faceAngle(p.trayIndex, p.segments), dist |-> closedDist(p)]

\* a re-render that writes the position prop to the mesh every time
RenderedAlways(pos, oldProp, newProp) == newProp

\* a re-render hands the mesh the position prop again; it is applied to the
\* mesh only when its value differs from the one of the previous render
Rendered(pos, oldProp, newProp) == IF newProp = oldProp THEN pos ELSE newProp

(* ---------------------------- inputs ----------------------------------- *)

\* SeptagonCase: radius 3, height 1.5, segments 7, innerRadius 1.2, Tray at
\* face 3, SideBox at face 0
CaseProps ==
    [radius |-> 3000, innerRadius |-> 1200, height |-> 1500, segments |-> 7,
     trayIndex |-> 3, boxIndex |-> 0]

\* a smaller case whose tray rests at 1.1 and opens to 2.6
SmallProps ==
    [radius |-> 1600, innerRadius |-> 800, height |-> 1500, segments |-> 7,
     trayIndex |-> 3, boxIndex |-> 0]

\* a two-sided "polygon"
DegenerateProps ==
    [radius |-> 3000, innerRadius |-> 1200, height |-> 1500, segments |-> 2,
     trayIndex |-> 1, boxIndex |-> 0]

ValidProps == {CaseProps, SmallProps}

AnyProps == ValidProps \cup {DegenerateProps}

\* elapsed seconds between two frames: 0, 1/60, 1/10, 1
Sixtieth == Frac(1, 60)

Tenth == Frac(1, 10)

Second == Frac(1, 1)

Deltas == {Zero, Sixtieth, Tenth, Second}

\* a clock that ran backwards by 1/10 s
NegTenth == Frac(-1, 10)

AnyDeltas == Deltas \cup {NegTenth}

(* ---------------------------- history ---------------------------------- *)

NoPosition == [angle |-> Zero, dist |-> 0]

NoRun == [ok |-> FALSE, start |-> 0, delta |-> Zero, len |-> 0]

\* a run is followed when it starts with the tray at rest, closed or open
FreshRun(start, p) ==
    IF start \in {closedDist(p), openDist(p)}
    THEN [ok |-> TRUE, start |-> start, delta |-> Zero, len |-> 0]
    ELSE NoRun

\* the run continues while every frame update in it got the same elapsed time
RunAfterFrame(delta) ==
    IF run.ok /\ run.len < MaxRun /\ (run.len = 0 \/ delta = run.delta)
    THEN [run EXCEPT !.delta = delta, !.len = @ + 1]
    ELSE NoRun

(* ---------------------------- operations ------------------------------- *)

InitWith(configs) ==
    /\ props \in configs
    /\ phase = "new"
    /\ isOpen = FALSE
    /\ meshRef = FALSE
    /\ position = NoPosition
    /\ sideBox = NoPosition
    /\ clockPhase = "new"
    /\ timers = 0
    /\ time = 0
    /\ now = 0
    /\ lastOp = "init"
    /\ negative = FALSE
    /\ openLog = << >>
    /\ run = NoRun

\* first render and commit of Tray and SideBox
Mount ==
    /\ phase = "new"
    /\ phase' = "mounted"
    /\ isOpen' = FALSE
    /\ meshRef' = TRUE
    /\ position' = PositionProp(props)
    /\ sideBox' = SideBoxPosition(props)
    /\ lastOp' = "mount"
    /\ openLog' = << FALSE >>
    /\ run' = FreshRun(currentDist(position'), props)
    /\ UNCHANGED << props, negative >>
    /\ UNCHANGED clockVars

\* Tray's useFrame callback
Frame(delta) ==
    /\ phase = "mounted"
    /\ meshRef
    /\ currentDist(position) <= MaxDist
    /\ LET target == targetDist(isOpen, props)
           newDist == lerp(currentDist(position), target, LerpFactor(delta))
       IN  position' = [position EXCEPT !.dist = newDist]
    /\ lastOp' = "frame"
    /\ negative' = (delta.n < 0)
    /\ run' = RunAfterFrame(delta)
    /\ UNCHANGED << phase, props, isOpen, meshRef, sideBox, openLog >>
    /\ UNCHANGED clockVars

\* setIsOpen(true) instead of the toggle
ClickedOpen(open) == TRUE

\* the value the click handler passes to setIsOpen
Clicked(open) == ~open

\* Tray's onClick, with the re-render its state update causes.  The handler
\* reads the isOpen of the latest render; the update of a click is rendered
\* before the next event or frame is delivered, so that is the state's value.
Click ==
    /\ phase = "mounted"
    /\ meshRef
    /\ Len(openLog) <= MaxClicks
    /\ isOpen' = Clicked(isOpen)
    /\ position' = Rendered(position, PositionProp(props), PositionProp(props))
    /\ lastOp' = "click"
    /\ openLog' = Append(openLog, isOpen')
    /\ run' = FreshRun(currentDist(position'), props)
    /\ UNCHANGED << phase, props, meshRef, sideBox, negative >>
    /\ UNCHANGED clockVars

\* teardown of Tray: the ref is cleared and the frame callback unsubscribed
Unmount ==
    /\ phase = "mounted"
    /\ phase' = "unmounted"
    /\ meshRef' = FALSE
    /\ lastOp' = "unmount"
    /\ UNCHANGED << props, isOpen, position, sideBox, negative, openLog, run >>
    /\ UNCHANGED clockVars

\* ClockContent's effect: setInterval(..., 1000)
ClockEffect(t) == t + 1

\* the effect has no dependencies: a re-render does not run it again
ClockRerender(t) == t

\* the interval's clean-up left out
ClockCleanupMissing(t) == t

\* ClockContent's effect clean-up: clearInterval(timer)
ClockCleanup(t) == t - 1

\* first render and commit of ClockContent
MountClock ==
    /\ clockPhase = "new"
    /\ clockPhase' = "mounted"
    /\ time' = now
    /\ timers' = ClockEffect(timers)
    /\ lastOp' = "mountClock"
    /\ UNCHANGED now
    /\ UNCHANGED trayVars

\* the interval callback, one second after the previous one, and its re-render
Tick ==
    /\ timers > 0
    /\ now < MaxTicks
    /\ now' = now + 1
    /\ time' = now'
    /\ timers' = ClockRerender(timers)
    /\ lastOp' = "tick"
    /\ UNCHANGED clockPhase
    /\ UNCHANGED trayVars

\* teardown of ClockContent
UnmountClock ==
    /\ clockPhase = "mounted"
    /\ clockPhase' = "unmounted"
    /\ timers' = ClockCleanup(timers)
    /\ lastOp' = "unmountClock"
    /\ UNCHANGED << time, now >>
    /\ UNCHANGED trayVars

(* ---------------------------- specifications --------------------------- *)

\* the Tray as the renderer drives it
Init == InitWith(ValidProps)

Next ==
    \/ Mount
    \/ \E delta \in Deltas : Frame(delta)
    \/ Click
    \/ Unmount

Spec == Init /\ [][Next]_vars

\* the Tray, also given inputs outside their documented domain
InitRaw == InitWith(AnyProps)

NextRaw ==
    \/ Mount
    \/ \E delta \in AnyDeltas : Frame(delta)
    \/ Click
    \/ Unmount

SpecRaw == InitRaw /\ [][NextRaw]_vars

\* the clock
InitClock == InitWith({CaseProps})

NextClock ==
    \/ MountClock
    \/ Tick
    \/ UnmountClock

SpecClock == InitClock /\ [][NextClock]_vars

(* ---------------------------- properties ------------------------------- *)

\* the target the frame callback reads in this state
Target == targetDist(isOpen, props)

\* the tray's distance from its target, as the frame callback reads it
Error == Abs(currentDist(position) - Target)

\* C1: frame-rate independence.  After ten frame updates of 1/10 s each, from
\* a run's start and toward one target, the tray is within 0.01 of where a
\* single frame update of 1 s from the same start would put it.
C1_FrameRateIndependent ==
    (run.ok /\ run.len = 10 /\ run.delta = Tenth)
        => Abs(currentDist(position) - lerp(run.start, Target, LerpFactor(Second)))
               <= 10

\* C2: monotonic convergence.  No frame update, whatever its elapsed time,
\* increases the tray's distance from its target.
C2_MonotonicConvergence ==
    [][lastOp' = "frame" => Error' <= Error]_vars

\* C3: a click flips isOpen and leaves the mesh where it is, also mid-slide,
\* through the re-render it causes; the frame update that follows starts from
\* that distance and heads for the new target.
C3_ClickKeepsDistance ==
    /\ [][lastOp' = "click" => (isOpen' = ~isOpen /\ position' = position)]_vars
    /\ [][(lastOp = "click" /\ lastOp' = "frame") =>
            \E delta \in Deltas :
                position'.dist =
                    lerp(currentDist(position), targetDist(openLog[Len(openLog)], props),
                         LerpFactor(delta))]_vars

\* a click has arrived while the tray was between its two rest positions
C3_Witness ==
    /\ lastOp = "click"
    /\ position.dist > closedDist(props)
    /\ position.dist < openDist(props)

\* C4: two clicks in a row, with any frame updates between them, bring isOpen
\* back to the value it had before the first of the two.
C4_DoubleToggleRestores ==
    /\ \A i \in 1..(Len(openLog) - 2) : openLog[i + 2] = openLog[i]
    /\ \A i \in 1..(Len(openLog) - 1) : openLog[i + 1] # openLog[i]
    /\ Len(openLog) > 0 => isOpen = openLog[Len(openLog)]

\* two clicks have happened, with frame updates after the first
C4_Witness ==
    /\ Len(openLog) >= 3
    /\ lastOp = "click"
    /\ position.dist # closedDist(props)

\* C5: the tray is mounted closed, at closedDist, and the frame updates before
\* the first click leave it there whatever their elapsed time.
C5_SeededClosed ==
    Len(openLog) = 1 => (~isOpen /\ position.dist = closedDist(props))

\* the first frame update after the mount has run, with a positive elapsed time
C5_Witness ==
    /\ Len(openLog) = 1
    /\ lastOp = "frame"
    /\ run.ok /\ run.len = 1 /\ run.delta = Second
    /\ position.dist = closedDist(props)

\* C6: a frame update with a negative elapsed time is refused: it leaves the
\* mesh where it was.
C6_NegativeDeltaRefused ==
    [][(lastOp' = "frame" /\ negative') => position' = position]_vars

\* C7: a configuration with fewer than three segments is refused at
\* construction: nothing is mounted and nothing is placed from it.
C7_TooFewSegmentsRefused ==
    props.segments < 3 =>
        /\ phase = "new"
        /\ ~meshRef
        /\ position = NoPosition
        /\ sideBox = NoPosition

\* C8: from rest at closedDist = 1.1 with isOpen true (openDist = 2.6), sixty
\* frame updates of 1/60 s each bring the tray within 1% of openDist.
C8_OpenWithinOnePercent ==
    (/\ closedDist(props) = 1100
     /\ openDist(props) = 2600
     /\ isOpen
     /\ run.ok /\ run.start = 1100 /\ run.delta = Sixtieth /\ run.len = 60)
        => 100 * Abs(currentDist(position) - 2600) <= 2600

\* the sixty frame updates of the scenario have run
C8_Witness ==
    /\ closedDist(props) = 1100
    /\ isOpen
    /\ run.ok /\ run.start = 1100 /\ run.delta = Sixtieth /\ run.len = 60

\* C9: while the clock is mounted exactly one interval timer is active,
\* however many ticks have re-rendered it; once it is unmounted no timer is
\* left, no tick runs and its time state never changes again.
C9_TimerStopsOnUnmount ==
    /\ [](clockPhase = "mounted" => timers = 1)
    /\ [](clockPhase = "unmounted" => timers = 0)
    /\ [][clockPhase = "unmounted" => (lastOp' # "tick" /\ time' = time)]_vars

\* the clock has ticked, re-rendered and then been unmounted
C9_Witness ==
    /\ clockPhase = "unmounted"
    /\ time >= 2
    /\ now < MaxTicks

\* C10: every distance a frame update writes lies between closedDist and
\* openDist.
C10_DistanceInRange ==
    lastOp = "frame" =>
        /\ closedDist(props) <= position.dist
        /\ position.dist <= openDist(props)

====
